---------------------------- MODULE Spec2Model ----------------------------
(***************************************************************************)
(* RAG-Study-Guide: the retrieval pipeline of src/main_rag.py              *)
(* (RAGPipeline), with the chunker of src/text_chunks.py and the index     *)
(* builder of src/embedding.py, and the converter of src/pdf_converter.py. *)
(*                                                                         *)
(* Numbers.  A search distance is kept in tenths (0.1 is 1, 1.0 is 10,     *)
(* 1.9 is 19); a similarity and a threshold are kept in twentieths (0.5    *)
(* is 10, 0.3 is 6, 0.95 is 19), so that 1 - d/2 is exact: 20 - d.         *)
(*                                                                         *)
(* Text.  A raw text is the sequence of the pieces the splitter cuts it    *)
(* into (each at most chunk_size characters); a piece is a number, and     *)
(* piece 0 is a piece of white space only.  A chunk is a non-blank piece.  *)
(***************************************************************************)
EXTENDS Integers, Sequences, FiniteSets, TLC

\* ------------------------------------------------------------------ bounds

\* Length of the long document (more chunks than the 100 candidates asked for).
LongLen == 102

\* Cap of the recursion depth of _get_all_relevant_content in the model.
MaxDepth == 3

\* Cap of the number of event loops a thread gets in the model.
MaxLoops == 2

\* ------------------------------------------------------- program constants

\* similarity_threshold's default, 0.5 (main_rag.py:38, :134, :217).
DefaultThreshold == 10

\* The relaxed threshold and its floor, 0.3 (main_rag.py:193, :195).
RelaxedThreshold == 6

\* "very few results": fewer than 3 (main_rag.py:193).
MinResults == 3

\* Candidate breadth of the scored search (main_rag.py:157).
MaxCandidates == 100

\* k of the fallback search (main_rag.py:209).
FallbackK == 10

\* ------------------------------------------------------------ input domains

\* The threads that call into the pipeline, and the pipeline instances.
Threads == {1, 2}

Instances == {1, 2}

\* The thread and the instance of the single-threaded use (spec section 5).
MainThread == CHOOSE t \in Threads : \A u \in Threads : t <= u

MainInstance == CHOOSE i \in Instances : \A j \in Instances : i <= j

\* Queries (topics); thresholds 0.2, 0.3 and 0.5.
Queries == {1, 2}

Thresholds == {4, RelaxedThreshold, DefaultThreshold}

EmptyText == << >>

BlankText == <<0>>

TextABC == <<1, 2, 3>>

TextMixed == <<6, 0, 5, 4, 2, 1>>

LongText == [i \in 1..LongLen |-> 100 + i]

Texts == {EmptyText, BlankText, TextABC, TextMixed, LongText}

\* What extract_pdf_to_text_file can return: {success, text, ...}.
ExtractionResults ==
    {[success |-> FALSE, text |-> EmptyText]}
        \cup {[success |-> TRUE, text |-> t] : t \in Texts}

\* Distance of chunk c to query q under the embedding, in tenths.
Distance(q, c) ==
    IF q = 1
    THEN CASE c = 1 -> 1
           [] c = 2 -> 10
           [] c = 3 -> 19
           [] c = 4 -> 14
           [] c = 5 -> 10
           [] c = 6 -> 25
           [] OTHER -> 12
    ELSE CASE c = 1 -> 19
           [] c = 2 -> 14
           [] c = 3 -> 14
           [] c = 4 -> 1
           [] c = 5 -> 15
           [] c = 6 -> 0
           [] OTHER -> (c % 5) * 5

\* ---------------------------------------------------------- pure functions

Min(a, b) == IF a <= b THEN a ELSE b

Take(s, n) == SubSeq(s, 1, Min(n, Len(s)))

\* A piece of white space only.
IsBlank(piece) == piece = 0

\* get_text_chunks: the pieces of the text, stripped; an empty piece is dropped.
get_text_chunks(text) == SelectSeq(text, LAMBDA piece : ~IsBlank(piece))

\* The index that was never built (self.vector_store = None).
None == [built |-> FALSE, texts |-> << >>]

\* create_vector_store on success: an index over exactly these chunks.
create_vector_store(text_chunks) == [built |-> TRUE, texts |-> text_chunks]

\* s ordered by its keys (keys[i] is the key of s[i]), stably: s[i] goes to
\* place[i], one more than the number of elements that come before it, which
\* are those of a smaller key (a larger one when descending) and those of the
\* same key that stand before it in s.  Python's list.sort keeps equal keys
\* in their original order, also with reverse=True.  (The one-element sets
\* bind s, keys and place to their values, which are then computed once.)
StableSort(s, keys, ascending) ==
    CHOOSE sorted \in UNION {
        { [r \in 1..Len(sv) |-> sv[CHOOSE i \in 1..Len(sv) : place[i] = r]] :
            place \in { [i \in 1..Len(sv) |->
                          1 + Cardinality({j \in 1..Len(sv) :
                                \/ IF ascending THEN kv[j] < kv[i] ELSE kv[j] > kv[i]
                                \/ kv[j] = kv[i] /\ j < i})] } } :
        sv \in {s}, kv \in {keys} } : TRUE

\* The distances of the index's texts to the query.
Distances(vs, q) == [i \in 1..Len(vs.texts) |-> Distance(q, vs.texts[i])]

\* The index's texts, nearest to the query first.
Nearest(vs, q) == StableSort(vs.texts, Distances(vs, q), TRUE)

\* vector_store.similarity_search_with_score(query, k) when it succeeds:
\* (document, distance) pairs, nearest first, at most k and at most all.
similarity_search_with_score(vs, q, k) ==
    Take(StableSort([i \in 1..Len(vs.texts) |->
                       [content |-> vs.texts[i], score |-> Distance(q, vs.texts[i])]],
                    Distances(vs, q), TRUE),
         k)

\* vector_store.similarity_search(query, k) when it succeeds: documents only.
similarity_search(vs, q, k) == Take(Nearest(vs, q), k)

\* Mutant: the distance is not halved, 1 - score.
Similarity_NotHalved(score) == 20 - 2 * score

\* similarity = 1 - (score / 2.0), in twentieths for a score in tenths.
Similarity(score) == 20 - score

\* Mutant: a similarity equal to the threshold is dropped.
KeepRelevant_Strict(results_with_scores, similarity_threshold) ==
    LET scored == [i \in 1..Len(results_with_scores) |->
                     [content    |-> results_with_scores[i].content,
                      similarity |-> 20 - results_with_scores[i].score,
                      distance   |-> results_with_scores[i].score]]
    IN  SelectSeq(scored, LAMBDA x : x.similarity > similarity_threshold)

\* The filter loop of lines 166-180.
KeepRelevant(results_with_scores, similarity_threshold) ==
    LET scored == [i \in 1..Len(results_with_scores) |->
                     [content    |-> results_with_scores[i].content,
                      similarity |-> Similarity(results_with_scores[i].score),
                      distance   |-> results_with_scores[i].score]]
    IN  SelectSeq(scored, LAMBDA x : x.similarity >= similarity_threshold)

\* Mutant: the sort without reverse=True.
SortBySimilarity_Ascending(relevant_chunks) ==
    StableSort(relevant_chunks,
               [i \in 1..Len(relevant_chunks) |-> relevant_chunks[i].similarity], TRUE)

\* relevant_chunks.sort(key=similarity, reverse=True)
SortBySimilarity(relevant_chunks) ==
    StableSort(relevant_chunks,
               [i \in 1..Len(relevant_chunks) |-> relevant_chunks[i].similarity], FALSE)

\* Mutant: "very few" taken as 3 or fewer.
NeedsRelaxation_AtMost(relevant_chunks, similarity_threshold) ==
    Len(relevant_chunks) <= MinResults /\ similarity_threshold > RelaxedThreshold

\* Mutant: the floor test lets a retry from 0.3 to 0.3 through.
NeedsRelaxation_FloorIncluded(relevant_chunks, similarity_threshold) ==
    Len(relevant_chunks) < MinResults /\ similarity_threshold >= RelaxedThreshold

\* The guard of the threshold relaxation (line 193).
NeedsRelaxation(relevant_chunks, similarity_threshold) ==
    Len(relevant_chunks) < MinResults /\ similarity_threshold > RelaxedThreshold

\* [chunk['content'] for chunk in relevant_chunks]
Contents(relevant_chunks) ==
    [i \in 1..Len(relevant_chunks) |-> relevant_chunks[i].content]


\* ------------------------------------------------------------------- state

VARIABLES
    vector_store,   \* self.vector_store of each instance (None until built)
    chunks,         \* self.chunks of each instance
    raw_text,       \* self.raw_text of each instance
    loop,           \* each thread's current event loop: which one, and its state
    pc,             \* where each thread's call stands
    call,           \* the call a thread is in: operation, receiver, arguments
    locals,         \* the call's local variables
    out,            \* what the call gave its caller
    log,            \* what the call did: stages run, searches made
    conv            \* the call of convert_markdown_to_pdf (pdf_converter.py)

vars == <<vector_store, chunks, raw_text, loop, pc, call, locals, out, log, conv>>

\* The state of the pipeline and of its callers.
pipeline_state == <<vector_store, chunks, raw_text, loop, pc, call, locals, out, log>>

self_state == <<vector_store, chunks, raw_text>>

\* A thread that never had an event loop.  A thread's loops are numbered as
\* they are made; state is "none" (no current loop), "open" or "closed".
NoLoop == [id |-> 0, state |-> "none"]

NoCall == [op |-> "none", inst |-> MainInstance, query |-> 1, threshold |-> 0]

NoExtraction == [success |-> FALSE, text |-> << >>]

NoLocals ==
    [extraction_result    |-> NoExtraction,
     similarity_threshold |-> 0,
     depth                |-> 0,
     results_with_scores  |-> << >>,
     relevant_chunks      |-> << >>]

NoBundle ==
    [vector_store    |-> None,
     chunks          |-> << >>,
     relevant_chunks |-> << >>,
     total_chunks    |-> 0,
     relevant_count  |-> 0,
     topics          |-> 0]

NoOut == [status |-> "none", error |-> << >>, value |-> << >>, bundle |-> NoBundle]

NoLog == [stages |-> << >>, attempts |-> << >>, retries |-> << >>, fallback |-> "none"]

\* No result of a conversion: the call has not returned one.
NoResult == [success |-> FALSE, error |-> "", output_file |-> "None"]

\* No conversion in progress.
NoConv ==
    [pc            |-> "idle",
     platform      |-> "linux",
     markdown_file |-> FALSE,
     metadata      |-> FALSE,
     pandoc_path   |-> "None",
     probes        |-> << >>,
     status        |-> "none",
     error         |-> "",
     result        |-> NoResult]

\* RAGPipeline.__init__ on every instance; no thread is in a call.
Init ==
    /\ vector_store = [i \in Instances |-> None]
    /\ chunks = [i \in Instances |-> << >>]
    /\ raw_text = [i \in Instances |-> << >>]
    /\ loop = [t \in Threads |-> NoLoop]
    /\ pc = [t \in Threads |-> "idle"]
    /\ call = [t \in Threads |-> NoCall]
    /\ locals = [t \in Threads |-> NoLocals]
    /\ out = [t \in Threads |-> NoOut]
    /\ log = [t \in Threads |-> NoLog]
    /\ conv = NoConv

\* ----------------------------------------------------------------- helpers

\* Mutant: a new loop is made and installed on every call.
SetupEventLoop_AlwaysNew(t) ==
    loop' = [loop EXCEPT ![t] = [id |-> @.id + 1, state |-> "open"]]

\* _setup_event_loop (lines 117-127): get_event_loop gives the thread's
\* current loop or raises RuntimeError when there is none; a closed loop
\* raises RuntimeError too (line 123); the except makes a new loop and
\* installs it as the thread's current loop.  An open loop is kept.
SetupEventLoop(t) ==
    loop' = [loop EXCEPT ![t] = IF @.state = "open"
                                THEN @
                                ELSE [id |-> @.id + 1, state |-> "open"]]

\* The message of the exception the caller sees: process_document wraps
\* every exception (line 113), query_vector_store lets it through.
Message(t, msg) ==
    IF call[t].op = "process" THEN <<"RAG Pipeline failed", msg>> ELSE <<msg>>

\* The call ends with an exception raised to its caller.
Raise(t, msg) ==
    /\ pc' = [pc EXCEPT ![t] = "done"]
    /\ out' = [out EXCEPT ![t] = [NoOut EXCEPT !.status = "raised",
                                               !.error = Message(t, msg)]]

Stage(t, name) == [log EXCEPT ![t].stages = Append(@, name)]

\* Mutant: the selection keeps its result in self.chunks.
ReturnFromSelection_StoresChunks(t, relevant_content) ==
    /\ chunks' = [chunks EXCEPT ![call[t].inst] = relevant_content]
    /\ IF call[t].op = "query"
       THEN /\ pc' = [pc EXCEPT ![t] = "done"]
            /\ out' = [out EXCEPT ![t] = [NoOut EXCEPT !.status = "returned",
                                                       !.value = relevant_content]]
            /\ UNCHANGED locals
       ELSE /\ pc' = [pc EXCEPT ![t] = "bundle"]
            /\ locals' = [locals EXCEPT ![t].relevant_chunks = relevant_content]
            /\ UNCHANGED out

\* _get_all_relevant_content returns relevant_content to its caller:
\* query_vector_store returns it (line 221), process_document keeps it in
\* relevant_chunks (line 91) and goes on to build its result.
ReturnFromSelection(t, relevant_content) ==
    /\ UNCHANGED chunks
    /\ IF call[t].op = "query"
       THEN /\ pc' = [pc EXCEPT ![t] = "done"]
            /\ out' = [out EXCEPT ![t] = [NoOut EXCEPT !.status = "returned",
                                                       !.value = relevant_content]]
            /\ UNCHANGED locals
       ELSE /\ pc' = [pc EXCEPT ![t] = "bundle"]
            /\ locals' = [locals EXCEPT ![t].relevant_chunks = relevant_content]
            /\ UNCHANGED out


\* ------------------------------------------------------- process_document

\* process_document(file_path, topics, similarity_threshold) is called on
\* instance i: lines 53-57, with _setup_event_loop.
ProcessDocument(t, i, topics, similarity_threshold) ==
    /\ pc[t] = "idle"
    /\ pc' = [pc EXCEPT ![t] = "extract"]
    /\ call' = [call EXCEPT ![t] = [op |-> "process", inst |-> i, query |-> topics,
                                    threshold |-> similarity_threshold]]
    /\ locals' = [locals EXCEPT ![t] =
                    [NoLocals EXCEPT !.similarity_threshold = similarity_threshold]]
    /\ out' = [out EXCEPT ![t] = NoOut]
    /\ log' = [log EXCEPT ![t] = NoLog]
    /\ SetupEventLoop(t)
    /\ UNCHANGED <<self_state, conv>>

\* Step 1, lines 62-68: extraction; a result without success ends the call.
Extract(t) ==
    /\ pc[t] = "extract"
    /\ \E extraction_result \in ExtractionResults :
         IF ~extraction_result.success
         THEN /\ Raise(t, "Failed to extract text from PDF")
              /\ UNCHANGED <<raw_text, locals>>
         ELSE /\ raw_text' = [raw_text EXCEPT ![call[t].inst] = extraction_result.text]
              /\ locals' = [locals EXCEPT ![t].extraction_result = extraction_result]
              /\ pc' = [pc EXCEPT ![t] = "chunk"]
              /\ UNCHANGED out
    /\ log' = Stage(t, "extract")
    /\ UNCHANGED <<vector_store, chunks, loop, call, conv>>

\* Mutant: the check of lines 76-77 is missing.
NoChunks_Continues(t) ==
    /\ pc' = [pc EXCEPT ![t] = "build"]
    /\ UNCHANGED out

\* What process_document does when get_text_chunks gave no chunk (lines 76-77).
NoChunks(t) ==
    Raise(t, "No text chunks created")

\* Mutant: chunks is an attribute of the class, shared by all instances.
ChunkText_ClassAttribute(t) ==
    /\ pc[t] = "chunk"
    /\ chunks' = [i \in Instances |-> get_text_chunks(raw_text[call[t].inst])]
    /\ IF chunks'[call[t].inst] = << >>
       THEN NoChunks(t)
       ELSE /\ pc' = [pc EXCEPT ![t] = "build"]
            /\ UNCHANGED out
    /\ log' = Stage(t, "chunk")
    /\ UNCHANGED <<vector_store, raw_text, loop, call, locals, conv>>

\* Step 2, lines 73-77: self.chunks = get_text_chunks(self.raw_text).
ChunkText(t) ==
    /\ pc[t] = "chunk"
    /\ chunks' = [chunks EXCEPT ![call[t].inst] = get_text_chunks(raw_text[call[t].inst])]
    /\ IF chunks'[call[t].inst] = << >>
       THEN NoChunks(t)
       ELSE /\ pc' = [pc EXCEPT ![t] = "build"]
            /\ UNCHANGED out
    /\ log' = Stage(t, "chunk")
    /\ UNCHANGED <<vector_store, raw_text, loop, call, locals, conv>>

\* Step 3, lines 82-85: self.vector_store = create_vector_store(self.chunks),
\* which raises when the embedding or the save fails (embedding.py:77-81).
BuildIndex(t) ==
    /\ pc[t] = "build"
    /\ \E built \in BOOLEAN :
         IF built
         THEN /\ vector_store' = [vector_store EXCEPT ![call[t].inst] =
                                    create_vector_store(chunks[call[t].inst])]
              /\ pc' = [pc EXCEPT ![t] = "select"]
              /\ UNCHANGED out
         ELSE /\ Raise(t, "Error creating vector store")
              /\ UNCHANGED vector_store
    /\ log' = Stage(t, "build")
    /\ UNCHANGED <<chunks, raw_text, loop, call, locals, conv>>

\* Lines 96-107: the result of process_document, read from self.
ReturnBundle(t) ==
    /\ pc[t] = "bundle"
    /\ pc' = [pc EXCEPT ![t] = "done"]
    /\ out' = [out EXCEPT ![t] =
                 [NoOut EXCEPT
                    !.status = "returned",
                    !.value = locals[t].relevant_chunks,
                    !.bundle = [vector_store    |-> vector_store[call[t].inst],
                                chunks          |-> chunks[call[t].inst],
                                relevant_chunks |-> locals[t].relevant_chunks,
                                total_chunks    |-> Len(chunks[call[t].inst]),
                                relevant_count  |-> Len(locals[t].relevant_chunks),
                                topics          |-> call[t].query]]]
    /\ UNCHANGED <<self_state, loop, call, locals, log, conv>>

\* ------------------------------------------------------ query_vector_store

\* query_vector_store(query, threshold) is called on instance i (line 221).
QueryVectorStore(t, i, query, threshold) ==
    /\ pc[t] = "idle"
    /\ pc' = [pc EXCEPT ![t] = "select"]
    /\ call' = [call EXCEPT ![t] = [op |-> "query", inst |-> i, query |-> query,
                                    threshold |-> threshold]]
    /\ locals' = [locals EXCEPT ![t] = [NoLocals EXCEPT !.similarity_threshold = threshold]]
    /\ out' = [out EXCEPT ![t] = NoOut]
    /\ log' = [log EXCEPT ![t] = NoLog]
    /\ UNCHANGED <<self_state, loop, conv>>

\* ----------------------------------------------- _get_all_relevant_content

\* Mutant: the check stands inside the try, so the fallback absorbs it.
StoreMissing_Absorbed(t) ==
    /\ pc' = [pc EXCEPT ![t] = "fallback"]
    /\ UNCHANGED <<locals, out>>

\* Lines 147-148 with no index: ValueError, raised before the try.  In the
\* top-level call it reaches the caller; in the recursive call of line 195 it
\* is raised inside the caller's try and ends in the caller's fallback.
StoreMissing(t) ==
    IF locals[t].depth = 0
    THEN /\ Raise(t, "Vector store not initialized")
         /\ UNCHANGED locals
    ELSE /\ pc' = [pc EXCEPT ![t] = "fallback"]
         /\ locals' = [locals EXCEPT ![t].depth = @ - 1]
         /\ UNCHANGED out

\* Lines 147-152: the entry of _get_all_relevant_content.
EnterSelection(t) ==
    /\ pc[t] = "select"
    /\ IF ~vector_store[call[t].inst].built
       THEN /\ StoreMissing(t)
            /\ UNCHANGED loop
       ELSE /\ SetupEventLoop(t)
            /\ pc' = [pc EXCEPT ![t] = "search"]
            /\ UNCHANGED <<locals, out>>
    /\ log' = IF locals[t].depth = 0 THEN Stage(t, "select") ELSE log
    /\ UNCHANGED <<self_state, call, conv>>

\* The scored search raised: control goes to the except of line 202.
ScoredSearchFailed(t) ==
    /\ pc' = [pc EXCEPT ![t] = "fallback"]
    /\ UNCHANGED <<locals, out>>

\* Lines 157-160: k = min(len(self.chunks), 100) and the scored search,
\* which returns or raises.
ScoredSearch(t) ==
    /\ pc[t] = "search"
    /\ LET i == call[t].inst
           k == Min(Len(chunks[i]), MaxCandidates)
       IN  \E ok \in BOOLEAN :
             /\ IF ok
                THEN /\ locals' = [locals EXCEPT ![t].results_with_scores =
                            similarity_search_with_score(vector_store[i], call[t].query, k)]
                     /\ pc' = [pc EXCEPT ![t] = "filter"]
                     /\ UNCHANGED out
                ELSE ScoredSearchFailed(t)
             /\ log' = [log EXCEPT ![t].attempts = Append(@,
                          [threshold |-> locals[t].similarity_threshold,
                           k         |-> k,
                           ok        |-> ok,
                           results   |-> locals'[t].results_with_scores])]
    /\ UNCHANGED <<self_state, loop, call, conv>>

\* Lines 166-200: filter, sort, and either the relaxed retry (line 195: the
\* function calls itself with threshold 0.3) or the return of the contents.
FilterAndSort(t) ==
    /\ pc[t] = "filter"
    /\ \E kept \in {KeepRelevant(locals[t].results_with_scores,
                                  locals[t].similarity_threshold)} :
       \E relevant_chunks \in {SortBySimilarity(kept)} :
           IF NeedsRelaxation(relevant_chunks, locals[t].similarity_threshold)
           THEN /\ locals[t].depth < MaxDepth
                /\ locals' = [locals EXCEPT ![t].depth = @ + 1,
                                            ![t].similarity_threshold = RelaxedThreshold]
                /\ pc' = [pc EXCEPT ![t] = "select"]
                /\ log' = [log EXCEPT ![t].retries = Append(@,
                             [from |-> locals[t].similarity_threshold,
                              to   |-> RelaxedThreshold])]
                /\ UNCHANGED <<out, chunks>>
           ELSE /\ ReturnFromSelection(t, Contents(relevant_chunks))
                /\ UNCHANGED log
    /\ UNCHANGED <<vector_store, raw_text, loop, call, conv>>

\* Mutant: the error of the fallback search is not caught.
FallbackFailed_Propagates(t) ==
    /\ Raise(t, "similarity search failed")
    /\ UNCHANGED <<locals, chunks>>

\* The fallback search raised too: the bare except of lines 211-213.
FallbackFailed(t) ==
    ReturnFromSelection(t, << >>)

\* Lines 202-213: the top 10 without scores, or the empty list.  With no
\* index object the attribute access itself raises.
Fallback(t) ==
    /\ pc[t] = "fallback"
    /\ LET i == call[t].inst
       IN  \E ok \in BOOLEAN :
             /\ ok => vector_store[i].built
             /\ IF ok
                THEN ReturnFromSelection(t,
                         similarity_search(vector_store[i], call[t].query, FallbackK))
                ELSE FallbackFailed(t)
             /\ log' = [log EXCEPT ![t].fallback = IF ok THEN "ok" ELSE "failed"]
    /\ UNCHANGED <<vector_store, raw_text, loop, call, conv>>

\* ------------------------------------------------------------------ caller

\* The caller has the result (or the exception) and is free to call again.
Finish(t) ==
    /\ pc[t] = "done"
    /\ pc' = [pc EXCEPT ![t] = "idle"]
    /\ call' = [call EXCEPT ![t] = NoCall]
    /\ locals' = [locals EXCEPT ![t] = NoLocals]
    /\ out' = [out EXCEPT ![t] = NoOut]
    /\ log' = [log EXCEPT ![t] = NoLog]
    /\ UNCHANGED <<self_state, loop, conv>>

\* ----------------------------------------------------------- specification

\* One caller, one pipeline instance, one call at a time (spec section 5):
\* the single-threaded, synchronous use of a RAGPipeline.
Next ==
    \/ \E q \in Queries, th \in Thresholds :
         ProcessDocument(MainThread, MainInstance, q, th)
    \/ \E q \in Queries, th \in Thresholds :
         QueryVectorStore(MainThread, MainInstance, q, th)
    \/ Extract(MainThread)
    \/ ChunkText(MainThread)
    \/ BuildIndex(MainThread)
    \/ EnterSelection(MainThread)
    \/ ScoredSearch(MainThread)
    \/ FilterAndSort(MainThread)
    \/ Fallback(MainThread)
    \/ ReturnBundle(MainThread)
    \/ Finish(MainThread)

Spec == Init /\ [][Next]_vars

\* A call that has started keeps running: the execution is synchronous.
Running(t) ==
    \/ Extract(t)
    \/ ChunkText(t)
    \/ BuildIndex(t)
    \/ EnterSelection(t)
    \/ ScoredSearch(t)
    \/ FilterAndSort(t)
    \/ Fallback(t)
    \/ ReturnBundle(t)

FairSpec == Spec /\ WF_vars(Running(MainThread))

TypeOK ==
    /\ \A i \in Instances : vector_store[i].built \in BOOLEAN
    /\ \A t \in Threads :
         /\ pc[t] \in {"idle", "extract", "chunk", "build", "select", "search",
                       "filter", "fallback", "bundle", "done"}
         /\ loop[t].state \in {"none", "open", "closed"}
         /\ loop[t].id >= 0
         /\ call[t].op \in {"none", "process", "query"}
         /\ out[t].status \in {"none", "returned", "raised"}
         /\ locals[t].depth \in 0..MaxDepth


\* -------------------------------------------------------------- concurrency

\* The documents of the concurrent calls: short ones, of different chunks.
ConcTexts == {EmptyText, TextABC, TextMixed}

\* Two threads, one process_document call each with the default threshold,
\* the first on the main instance, the second on an instance of its choice
\* (the same or the other), their steps interleaved in any order.  A thread
\* keeps its result: call[t] stays what the thread called.
ConcNext ==
    \E t \in Threads :
        \/ \E i \in Instances, q \in Queries :
             /\ t = MainThread => i = MainInstance
             /\ ProcessDocument(t, i, q, DefaultThreshold)
        \/ /\ Extract(t)
           /\ locals'[t].extraction_result.text \in ConcTexts
        \/ ChunkText(t)
        \/ BuildIndex(t)
        \/ EnterSelection(t)
        \/ ScoredSearch(t)
        \/ FilterAndSort(t)
        \/ Fallback(t)
        \/ ReturnBundle(t)

ConcSpec == Init /\ [][ConcNext]_vars

\* ------------------------------------------------------------- event loops

\* The host ends the event loop of an idle thread: loop.close() leaves a
\* closed loop as the thread's current one, asyncio.run() leaves none.
CloseLoop(t) ==
    /\ pc[t] = "idle"
    /\ loop[t].state = "open"
    /\ loop[t].id < MaxLoops
    /\ \E state \in {"closed", "none"} :
         loop' = [loop EXCEPT ![t].state = state]
    /\ UNCHANGED <<self_state, pc, call, locals, out, log, conv>>

\* The documents of the calls below.
LoopTexts == {EmptyText, TextABC}

\* A multi-threaded host (spec section 5): every thread has a pipeline of
\* its own and calls process_document and query_vector_store on it again
\* and again, with the default threshold; between its calls the host may end
\* its event loop.
LoopNext ==
    \E t \in Threads :
        \/ \E i \in Instances :
             /\ i = t
             /\ ProcessDocument(t, i, 1, DefaultThreshold)
        \/ \E i \in Instances :
             /\ i = t
             /\ QueryVectorStore(t, i, 1, DefaultThreshold)
        \/ /\ Extract(t)
           /\ locals'[t].extraction_result.text \in LoopTexts
        \/ ChunkText(t)
        \/ BuildIndex(t)
        \/ EnterSelection(t)
        \/ ScoredSearch(t)
        \/ FilterAndSort(t)
        \/ Fallback(t)
        \/ ReturnBundle(t)
        \/ Finish(t)
        \/ CloseLoop(t)

LoopSpec == Init /\ [][LoopNext]_vars

\* ------------------------------------------------------------ pdf_converter

\* The operating systems sys.platform tells apart (pdf_converter.py:40, :47).
Platforms == {"win32", "linux"}

\* How subprocess.run ends: exit code 0, another exit code, or an exception.
\* Through a shell (shell=True) the shell itself is what is started, so a
\* program that is missing or cannot be executed shows as an exit code;
\* started directly, it raises FileNotFoundError or another OSError
\* (PermissionError, "Exec format error").  Both can outlast the timeout.
RunOutcomes(shell) ==
    IF shell
    THEN {"zero", "nonzero", "TimeoutExpired"}
    ELSE {"zero", "nonzero", "TimeoutExpired", "FileNotFoundError", "OSError"}

\* The failure result of convert_markdown_to_pdf (lines 133-137 and alike).
Failure(error_msg) == [success |-> FALSE, error |-> error_msg, output_file |-> "None"]

\* The success result (lines 211-215).
Success == [success |-> TRUE, error |-> "", output_file |-> "output_pdf"]

\* The conversion with one more subprocess.run on its record.
Probed(name, outcome) ==
    [conv EXCEPT !.probes = Append(@, [probe |-> name, outcome |-> outcome])]

\* convert_markdown_to_pdf returns result to its caller (c: the conversion).
ConvReturn(c, result) ==
    conv' = [c EXCEPT !.pc = "done", !.status = "returned", !.result = result]

\* An exception leaves convert_markdown_to_pdf: its caller gets no result.
ConvRaise(c, error) ==
    conv' = [c EXCEPT !.pc = "done", !.status = "raised", !.error = error]

\* convert_markdown_to_pdf(markdown_file, output_pdf, metadata) is called
\* (line 105); markdown_file tells whether the input file exists, metadata
\* whether a metadata dict is given.  Line 123 enters check_pandoc_installed,
\* line 83 find_pandoc_path.
ConvertMarkdownToPdf(platform, markdown_file, metadata) ==
    /\ conv.pc = "idle"
    /\ conv' = [NoConv EXCEPT !.pc = "find", !.platform = platform,
                              !.markdown_file = markdown_file, !.metadata = metadata]
    /\ UNCHANGED pipeline_state

\* find_pandoc_path, lines 28-37: "pandoc --version" through the shell; any
\* exception is swallowed by the bare except.
FindInPath ==
    /\ conv.pc = "find"
    /\ \E outcome \in RunOutcomes(TRUE) :
         conv' = IF outcome = "zero"
                 THEN [Probed("path", outcome) EXCEPT !.pc = "check",
                                                      !.pandoc_path = "pandoc"]
                 ELSE [Probed("path", outcome) EXCEPT
                         !.pc = IF conv.platform = "win32" THEN "common" ELSE "locate"]
    /\ UNCHANGED pipeline_state

\* find_pandoc_path, lines 40-44: the well-known install locations (Windows).
CommonPaths ==
    /\ conv.pc = "common"
    /\ \E exists \in BOOLEAN :
         conv' = IF exists
                 THEN [conv EXCEPT !.pc = "check", !.pandoc_path = "common_path"]
                 ELSE [conv EXCEPT !.pc = "locate"]
    /\ UNCHANGED pipeline_state

\* find_pandoc_path, lines 47-73: "where pandoc" through the shell on Windows,
\* "which pandoc" started directly elsewhere; bare except; None in the end.
Locate ==
    /\ conv.pc = "locate"
    /\ \E outcome \in RunOutcomes(conv.platform = "win32") :
         conv' = [Probed("locate", outcome) EXCEPT
                    !.pc = "check",
                    !.pandoc_path = IF outcome = "zero" THEN "located" ELSE "None"]
    /\ UNCHANGED pipeline_state

\* Lines 125-137: is_installed is False.
NotInstalled(c) ==
    ConvReturn(c, Failure("Pandoc is not installed or not found in PATH"))

\* check_pandoc_installed raised something other than the two exceptions of
\* line 100; the call of line 123 stands outside the try of line 190.
ProbeRaised(c, outcome) == ConvRaise(c, outcome)

\* check_pandoc_installed, lines 85-102, and what line 125 makes of it.
CheckPandocInstalled ==
    /\ conv.pc = "check"
    /\ IF conv.pandoc_path = "None"
       THEN NotInstalled(conv)
       ELSE \E outcome \in RunOutcomes(conv.platform = "win32") :
              CASE outcome = "zero" ->
                     conv' = [Probed("version", outcome) EXCEPT !.pc = "input"]
                [] outcome \in {"nonzero", "FileNotFoundError", "TimeoutExpired"} ->
                     NotInstalled(Probed("version", outcome))
                [] OTHER ->
                     ProbeRaised(Probed("version", outcome), outcome)
    /\ UNCHANGED pipeline_state

\* Lines 140-147: the input file must exist.
CheckInput ==
    /\ conv.pc = "input"
    /\ IF conv.markdown_file
       THEN conv' = [conv EXCEPT !.pc = "run"]
       ELSE ConvReturn(conv, Failure("Markdown file not found"))
    /\ UNCHANGED pipeline_state

\* What the try of lines 190-255 returns for an outcome of the conversion.
ConversionResult(outcome, created) ==
    CASE outcome = "zero" /\ created -> Success
      [] outcome = "zero" /\ ~created -> Failure("PDF file was not created")
      [] outcome = "nonzero" -> Failure("Pandoc conversion failed")
      [] outcome = "TimeoutExpired" -> Failure("PDF conversion timed out")
      [] OTHER -> Failure("Unexpected error during PDF conversion")

\* Lines 169-255: the conversion, 30 seconds at most.
RunPandoc ==
    /\ conv.pc = "run"
    /\ \E outcome \in RunOutcomes(conv.platform = "win32"), created \in BOOLEAN :
         ConvReturn(Probed("convert", outcome), ConversionResult(outcome, created))
    /\ UNCHANGED pipeline_state

\* The caller has the result and may convert again.
ConvFinish ==
    /\ conv.pc = "done"
    /\ conv' = NoConv
    /\ UNCHANGED pipeline_state

ConvNext ==
    \/ \E platform \in Platforms, markdown_file \in BOOLEAN, metadata \in BOOLEAN :
         ConvertMarkdownToPdf(platform, markdown_file, metadata)
    \/ FindInPath
    \/ CommonPaths
    \/ Locate
    \/ CheckPandocInstalled
    \/ CheckInput
    \/ RunPandoc
    \/ ConvFinish

\* The converter on its own: the pipeline never calls it (spec section 6).
ConvSpec == Init /\ [][ConvNext]_vars

\* ------------------------------------------------------------------ claims

Range(s) == {s[j] : j \in 1..Len(s)}

Done(t) == pc[t] = "done"

Returned(t) == Done(t) /\ out[t].status = "returned"

Raised(t) == Done(t) /\ out[t].status = "raised"

LastAttempt(t) == log[t].attempts[Len(log[t].attempts)]

\* The scored search of the call's last attempt raised.
ScoredFailed(t) == log[t].attempts # << >> /\ ~LastAttempt(t).ok

\* The call answered from the filter of its last scored search.
ScoredAnswer(t) ==
    Returned(t) /\ log[t].attempts # << >> /\ LastAttempt(t).ok /\ log[t].fallback = "none"

\* The candidates of an attempt that pass its threshold: 1 - d/2 >= threshold.
Survivors(a) ==
    {j \in 1..Len(a.results) : 20 - a.results[j].score >= a.threshold}

\* list holds, nearest first, the Min(k, all) texts of vs nearest to q.
IsNearest(list, vs, q, k) ==
    /\ Len(list) = Min(k, Len(vs.texts))
    /\ Range(list) \subseteq Range(vs.texts)
    /\ Cardinality(Range(list)) = Len(list)
    /\ \A j \in 1..(Len(list) - 1) : Distance(q, list[j]) <= Distance(q, list[j + 1])
    /\ \A c \in Range(vs.texts) \ Range(list) :
         \A j \in 1..Len(list) : Distance(q, list[j]) <= Distance(q, c)

\* C1: a search error never reaches the caller of _get_all_relevant_content /
\* query_vector_store: when the scored search raises, the call returns what a
\* plain nearest-neighbour search with k = 10 gives, unfiltered, and when that
\* search raises too it returns the empty list.
C1_SearchFailureAbsorbed ==
    \A t \in Threads :
        (Done(t) /\ ScoredFailed(t)) =>
            /\ out[t].status = "returned"
            /\ log[t].fallback \in {"ok", "failed"}
            /\ log[t].fallback = "ok" =>
                 IsNearest(out[t].value, vector_store[call[t].inst], call[t].query, 10)
            /\ log[t].fallback = "failed" => out[t].value = << >>

\* C1 happens: a scored search failed and the caller got the unfiltered top
\* 10 of a longer document, chunks under the threshold included.
C1_Witness ==
    \E t \in Threads :
        /\ Done(t) /\ ScoredFailed(t) /\ log[t].fallback = "ok"
        /\ Len(out[t].value) = 10
        /\ Len(vector_store[call[t].inst].texts) > 10
        /\ \E c \in Range(out[t].value) :
             20 - Distance(call[t].query, c) < call[t].threshold

\* The filter of attempt n of thread t has run.
Filtered(t, n) ==
    /\ n \in 1..Len(log[t].attempts)
    /\ log[t].attempts[n].ok
    /\ n < Len(log[t].attempts) \/ pc[t] # "filter"

\* C2: the relaxation fires exactly when fewer than 3 candidates passed the
\* threshold just tried and that threshold is above 0.3; the retry runs at
\* 0.3 and the call returns the retry's result, so 0.3 is the final threshold.
C2_RelaxationExactly ==
    \A t \in Threads :
        /\ \A n \in 1..Len(log[t].attempts) :
             Filtered(t, n) =>
                 /\ Len(log[t].retries) >= n
                      <=> /\ Cardinality(Survivors(log[t].attempts[n])) < 3
                          /\ log[t].attempts[n].threshold > 6
                 /\ Len(log[t].retries) >= n =>
                      /\ log[t].retries[n].from = log[t].attempts[n].threshold
                      /\ log[t].retries[n].to = 6
                      /\ locals[t].similarity_threshold = 6
                 /\ n = 1 => log[t].attempts[n].threshold = call[t].threshold
                 /\ n > 1 => log[t].attempts[n].threshold = 6
        /\ (ScoredAnswer(t) /\ log[t].retries # << >>) =>
             /\ LastAttempt(t).threshold = 6
             /\ Range(out[t].value) =
                  {LastAttempt(t).results[j].content : j \in Survivors(LastAttempt(t))}

\* C2 happens: fewer than 3 chunks cleared 0.5, the retry at 0.3 ran and its
\* result, with more chunks, was returned.
C2_Witness ==
    \E t \in Threads :
        /\ ScoredAnswer(t)
        /\ call[t].threshold = 10
        /\ Len(log[t].attempts) = 2
        /\ Cardinality(Survivors(log[t].attempts[1])) < 3
        /\ Len(out[t].value) > Cardinality(Survivors(log[t].attempts[1]))


\* The relaxation is bounded: at most one retry, to a lower threshold, one
\* level of recursion.
RetryBounded(t) ==
    /\ locals[t].depth <= 1
    /\ Len(log[t].retries) <= 1
    /\ Len(log[t].attempts) <= 2
    /\ \A n \in 1..Len(log[t].retries) : log[t].retries[n].to < log[t].retries[n].from

\* C3: every call of _get_all_relevant_content (through process_document or
\* query_vector_store) terminates, with at most one relaxation retry per
\* top-level call: the recursion depth never exceeds 1 and a retry goes to
\* a threshold strictly below the one just tried, whatever the searches do.
C3_TerminatesOneRetry ==
    /\ [](\A t \in Threads : RetryBounded(t))
    /\ \A t \in Threads : (pc[t] # "idle") ~> (pc[t] = "done")

\* C3 happens: the retry ran, found fewer than 3 survivors again, and the
\* call ended there.
C3_Witness ==
    \E t \in Threads :
        /\ ScoredAnswer(t)
        /\ locals[t].depth = 1
        /\ Len(log[t].attempts) = 2
        /\ Cardinality(Survivors(log[t].attempts[2])) < 3

\* C4: when the scored search succeeds the call returns exactly the chunks,
\* among the k = min(len(chunks), 100) nearest, whose similarity 1 - d/2 is
\* at least the threshold finally used (the caller's, or 0.3 after the
\* relaxation): none below it, none at or above it dropped.
C4_ExactlyAboveThreshold ==
    \A t \in Threads :
        ScoredAnswer(t) =>
            LET a  == LastAttempt(t)
                i  == call[t].inst
                th == IF log[t].retries = << >> THEN call[t].threshold ELSE 6
                near == [j \in 1..Len(a.results) |-> a.results[j].content]
            IN  /\ a.k = Min(Len(chunks[i]), 100)
                /\ IsNearest(near, vector_store[i], call[t].query, a.k)
                /\ \A j \in 1..Len(a.results) :
                     a.results[j].score = Distance(call[t].query, near[j])
                /\ Range(out[t].value) =
                     {c \in Range(near) : 2 * th <= 40 - 2 * Distance(call[t].query, c)}
                /\ Cardinality(Range(out[t].value)) = Len(out[t].value)

\* C4 happens: more than 100 chunks, 100 candidates, one returned chunk with
\* similarity equal to the threshold and one candidate dropped.
C4_Witness ==
    \E t \in Threads :
        /\ ScoredAnswer(t)
        /\ Len(chunks[call[t].inst]) > 100
        /\ Len(LastAttempt(t).results) = 100
        /\ \E c \in Range(out[t].value) :
             20 - Distance(call[t].query, c) = LastAttempt(t).threshold
        /\ Len(out[t].value) < Len(LastAttempt(t).results)

\* Where content c stands in the search result.
Place(results, c) == CHOOSE j \in 1..Len(results) : results[j].content = c

\* C5: the returned sequence is in descending similarity, and chunks of equal
\* similarity keep the order the search result gave them.
C5_DescendingSimilarity ==
    \A t \in Threads :
        Returned(t) =>
            LET v == out[t].value
                q == call[t].query
            IN  /\ \A j \in 1..(Len(v) - 1) :
                     20 - Distance(q, v[j]) >= 20 - Distance(q, v[j + 1])
                /\ ScoredAnswer(t) =>
                     \A j \in 1..(Len(v) - 1) :
                        Distance(q, v[j]) = Distance(q, v[j + 1]) =>
                            Place(LastAttempt(t).results, v[j])
                                < Place(LastAttempt(t).results, v[j + 1])

\* C5 happens: a returned list with two chunks of equal similarity after a
\* chunk of higher similarity.
C5_Witness ==
    \E t \in Threads :
        /\ ScoredAnswer(t)
        /\ Len(out[t].value) = 3
        /\ Distance(call[t].query, out[t].value[1]) < Distance(call[t].query, out[t].value[2])
        /\ Distance(call[t].query, out[t].value[2]) = Distance(call[t].query, out[t].value[3])


\* No call is running on instance i.
Quiet(i) == \A t \in Threads : pc[t] \in {"idle", "done"} \/ call[t].inst # i

\* C6: between calls the state of an instance is replaced wholesale or not at
\* all: a set vector_store is the index of exactly the current self.chunks,
\* and self.chunks is the chunking of the current self.raw_text, also after
\* a process_document call that failed.
C6_ReplacedWholesale ==
    \A i \in Instances :
        Quiet(i) =>
            /\ chunks[i] = get_text_chunks(raw_text[i])
            /\ vector_store[i].built => vector_store[i].texts = chunks[i]

Stages == <<"extract", "chunk", "build", "select">>

\* C7: process_document runs extraction, chunking, index build and selection
\* in this order, each at most once, and fails fast: after an extraction
\* without success, or a chunking that gave no chunk, the call has raised its
\* error and has run no later stage, no index build and no search.
C7_StagesInOrderFailFast ==
    \A t \in Threads :
        call[t].op = "process" =>
            LET st == log[t].stages
                er == locals[t].extraction_result
                untouched == log[t].attempts = << >> /\ log[t].fallback = "none"
            IN  /\ \E n \in 0..Len(Stages) : st = SubSeq(Stages, 1, n)
                /\ (Len(st) >= 1 /\ ~er.success) =>
                     /\ Raised(t)
                     /\ out[t].error = <<"RAG Pipeline failed", "Failed to extract text from PDF">>
                     /\ st = <<"extract">>
                     /\ untouched
                /\ (Len(st) >= 2 /\ \A piece \in Range(er.text) : piece = 0) =>
                     /\ Raised(t)
                     /\ out[t].error = <<"RAG Pipeline failed", "No text chunks created">>
                     /\ st = <<"extract", "chunk">>
                     /\ untouched

\* C7 happens: a text of white space only was extracted on an instance that
\* has an index, and the call raised after the chunking.
C7_Witness ==
    \E t \in Threads :
        /\ call[t].op = "process" /\ Raised(t)
        /\ locals[t].extraction_result.success
        /\ locals[t].extraction_result.text # << >>
        /\ log[t].stages = <<"extract", "chunk">>
        /\ vector_store[call[t].inst].built

\* C8: query_vector_store on an instance whose index was never built raises
\* "Vector store not initialized" to the caller, without any search and
\* without the fallback; with an index it does not raise.
C8_QueryWithoutIndexRaises ==
    \A t \in Threads :
        (call[t].op = "query" /\ Done(t)) =>
            /\ ~vector_store[call[t].inst].built <=> out[t].status = "raised"
            /\ out[t].status = "raised" =>
                 /\ out[t].error = <<"Vector store not initialized">>
                 /\ log[t].attempts = << >>
                 /\ log[t].fallback = "none"

\* C8 happens: the query raised on an instance whose only process_document
\* calls failed after extraction, before the index was built.
C8_Witness ==
    \E t \in Threads :
        /\ call[t].op = "query" /\ Raised(t)
        /\ raw_text[call[t].inst] # << >>
        /\ ~vector_store[call[t].inst].built

\* What a query returns, from the state of the instance, the arguments and
\* the outcome of its searches (fallback: "none", "ok", "failed").
Answer(i, query, threshold, fallback) ==
    IF fallback = "failed" THEN << >>
    ELSE IF fallback = "ok" THEN similarity_search(vector_store[i], query, 10)
    ELSE Contents(SortBySimilarity(KeepRelevant(
             similarity_search_with_score(vector_store[i], query,
                                          Min(Len(chunks[i]), 100)),
             threshold)))

\* C9: query_vector_store runs the selection only: no step of it changes
\* self.chunks, self.vector_store or self.raw_text, it runs no extraction,
\* chunking or index build, and what it returns is determined by that
\* unchanged state, the arguments and the outcome of the searches.
C9_QueryLeavesStateAlone ==
    [][\A t \in Threads :
          call'[t].op = "query" =>
              /\ UNCHANGED self_state
              /\ Range(log'[t].stages) \subseteq {"select"}
              /\ (pc'[t] = "done" /\ out'[t].status = "returned") =>
                   out'[t].value =
                     Answer(call'[t].inst, call'[t].query,
                            IF log'[t].retries = << >>
                            THEN call'[t].threshold ELSE 6,
                            log'[t].fallback)]_vars

\* C9 happens: a query returned a relaxed, non-empty result.
C9_Witness ==
    \E t \in Threads :
        /\ call[t].op = "query" /\ ScoredAnswer(t)
        /\ log[t].retries # << >>
        /\ out[t].value # << >>

\* C10: process_document with threshold 0.5 on a 3-chunk document at
\* distances 0.1, 1.0, 1.9 (similarities 0.95, 0.5, 0.05) returns exactly the
\* first two chunks, in that order, after the relaxed retry at 0.3 that the
\* 2 survivors trigger.
C10_EndToEnd ==
    \A t \in Threads :
        ( /\ call[t].op = "process" /\ Done(t)
          /\ call[t].threshold = 10
          /\ Len(chunks[call[t].inst]) = 3
          /\ log[t].fallback = "none"
          /\ log[t].attempts # << >>
          /\ \A n \in 1..Len(log[t].attempts) :
               /\ log[t].attempts[n].ok
               /\ [j \in 1..Len(log[t].attempts[n].results) |->
                     log[t].attempts[n].results[j].score] = <<1, 10, 19>> )
        =>
            LET A == log[t].attempts[1].results[1].content
                B == log[t].attempts[1].results[2].content
            IN  /\ out[t].status = "returned"
                /\ out[t].bundle.relevant_chunks = <<A, B>>
                /\ out[t].bundle.relevant_count = 2
                /\ out[t].bundle.total_chunks = 3
                /\ Similarity(1) = 19 /\ Similarity(10) = 10 /\ Similarity(19) = 1
                /\ Len(log[t].attempts) = 2
                /\ locals[t].similarity_threshold = 6

\* C10 happens: that document was processed with threshold 0.5 and both
\* searches succeeded.
C10_Witness ==
    \E t \in Threads :
        /\ call[t].op = "process" /\ Returned(t)
        /\ call[t].threshold = 10
        /\ chunks[call[t].inst] = TextABC
        /\ call[t].query = 1
        /\ log[t].fallback = "none"
        /\ out[t].bundle.relevant_chunks = <<1, 2>>

\* C11 (as claimed).  convert_markdown_to_pdf never raises to its caller:
\* every call that ends has returned a result, and a result that is not a
\* success is {success: False, error: <message>, output_file: None}.
C11_FailureIsStructured ==
    conv.pc = "done" =>
        /\ conv.status = "returned"
        /\ ~conv.result.success =>
              /\ conv.result.error # ""
              /\ conv.result.output_file = "None"

\* What does hold: the one exception that leaves convert_markdown_to_pdf is
\* an error of the version probe of check_pandoc_installed that line 100 does
\* not name; every other failure, the listed ones included, is a structured
\* result.
C11_OnlyVersionProbeErrorEscapes ==
    conv.pc = "done" =>
        IF /\ conv.probes # << >>
           /\ conv.probes[Len(conv.probes)].probe = "version"
           /\ conv.probes[Len(conv.probes)].outcome \notin
                 {"zero", "nonzero", "FileNotFoundError", "TimeoutExpired"}
        THEN conv.status = "raised"
        ELSE /\ conv.status = "returned"
             /\ ~conv.result.success =>
                   /\ conv.result.error # ""
                   /\ conv.result.output_file = "None"

\* The chunks of the document that the call of thread t extracted.
Own(t) == get_text_chunks(locals[t].extraction_result.text)

\* The bundle thread t got is the bundle of its own document: its chunks and
\* their count, an index of exactly these chunks, every search made over that
\* index with k taken from these chunks, relevant chunks out of these chunks.
BundleConsistent(t) ==
    LET own == Own(t)
        b   == out[t].bundle
        q   == call[t].query
    IN  /\ b.chunks = own
        /\ b.total_chunks = Len(own)
        /\ b.vector_store = create_vector_store(own)
        /\ Range(b.relevant_chunks) \subseteq Range(own)
        /\ b.relevant_count = Len(b.relevant_chunks)
        /\ \A n \in 1..Len(log[t].attempts) :
             log[t].attempts[n].ok =>
                 log[t].attempts[n].results =
                     similarity_search_with_score(create_vector_store(own), q,
                                                  Min(Len(own), 100))
        /\ log[t].fallback = "ok" =>
             b.relevant_chunks = similarity_search(create_vector_store(own), q, 10)

\* No other thread has called on the instance thread t called on.
Alone(t) ==
    \A u \in Threads \ {t} : call[u].op = "none" \/ call[u].inst # call[t].inst

\* C12: two process_document calls on two separate instances never give a
\* bundle that is inconsistent with the call's own document, however their
\* steps interleave; on the same instance they can (C12_Witness).
C12_SeparateInstancesConsistent ==
    \A t \in Threads :
        (call[t].op = "process" /\ Returned(t) /\ Alone(t)) => BundleConsistent(t)

\* C12 happens: two calls interleaved on one instance, and one of them
\* returned a bundle whose chunks, count and index are those of the other
\* call's document and whose relevant chunks hold a chunk that its own
\* document does not have.
C12_Witness ==
    \E t \in Threads : \E u \in Threads \ {t} :
        /\ call[t].op = "process" /\ Returned(t)
        /\ call[u].op = "process" /\ call[u].inst = call[t].inst
        /\ Own(u) # Own(t)
        /\ ~BundleConsistent(t)
        /\ out[t].bundle.chunks = Own(u)
        /\ out[t].bundle.total_chunks = Len(Own(u))
        /\ out[t].bundle.vector_store = create_vector_store(Own(u))
        /\ \E c \in Range(out[t].bundle.relevant_chunks) : c \notin Range(Own(t))

\* The chunks that passed the threshold of the call's first attempt, in the
\* order in which that attempt would have returned them.
FirstSurvivors(t) ==
    Contents(SortBySimilarity(KeepRelevant(log[t].attempts[1].results,
                                           log[t].attempts[1].threshold)))

\* Every element of kept is in list, and in the same relative order.
KeptInOrder(kept, list) ==
    /\ Range(kept) \subseteq Range(list)
    /\ \A a \in 1..Len(kept) : \A b \in (a + 1)..Len(kept) :
         \E x \in 1..Len(list) : \E y \in (x + 1)..Len(list) :
             list[x] = kept[a] /\ list[y] = kept[b]

\* C13 (as claimed).  The relaxation never loses results: when the first
\* attempt at a threshold above 0.3 left fewer than 3 survivors and the call
\* retried at 0.3, the list the call returns holds every survivor of the
\* first attempt, in the same relative order, whatever the retried searches
\* did.
C13_RelaxationKeepsSurvivors ==
    \A t \in Threads :
        (Returned(t) /\ log[t].retries # << >>) =>
            KeptInOrder(FirstSurvivors(t), out[t].value)

\* What does hold: the survivors are kept, in order, unless the retry's
\* scored search and its fallback search both failed; then the call returns
\* the empty list.
C13_KeptUnlessRetryFailedTwice ==
    \A t \in Threads :
        (Returned(t) /\ log[t].retries # << >>) =>
            IF log[t].fallback = "failed"
            THEN out[t].value = << >>
            ELSE KeptInOrder(FirstSurvivors(t), out[t].value)

\* This step of thread t runs _setup_event_loop: the entry of
\* process_document (line 55) or of the selection with an index (line 152).
SetupCalled(t) ==
    \/ pc[t] = "idle" /\ pc'[t] = "extract"
    \/ pc[t] = "select" /\ pc'[t] = "search"

\* Thread t is in a call that has run _setup_event_loop.
HasSetUp(t) ==
    \/ call[t].op = "process" /\ pc[t] # "idle"
    \/ pc[t] \in {"search", "filter"}

\* C14: _setup_event_loop is lazy and idempotent.  A call from a thread with
\* no event loop, or with a closed one, installs a fresh open loop for that
\* thread and does not fail; a call from a thread with an open loop leaves
\* that loop in place; no call touches the loop of another thread; and a
\* thread that has made the call has one current loop, an open one.
C14_LazyIdempotentSetup ==
    /\ [](\A t \in Threads : HasSetUp(t) => loop[t].state = "open")
    /\ [][\A t \in Threads :
            SetupCalled(t) =>
                /\ loop'[t].state = "open"
                /\ loop[t].state = "open" => loop'[t] = loop[t]
                /\ loop[t].state # "open" => loop'[t].id = loop[t].id + 1
                /\ \A u \in Threads \ {t} : loop'[u] = loop[u]
                /\ out'[t].status # "raised"]_vars

\* C14 happens: two threads are past the second _setup_event_loop of their
\* process_document calls; one had lost its first loop before the call and
\* works with its second one, the other still has its first.
C14_Witness ==
    \E t \in Threads : \E u \in Threads \ {t} :
        /\ call[t].op = "process" /\ pc[t] = "search"
        /\ call[u].op = "process" /\ pc[u] = "search"
        /\ loop[t] = [id |-> 2, state |-> "open"]
        /\ loop[u] = [id |-> 1, state |-> "open"]

=============================================================================
